---- MODULE Spec2Model ----
(***************************************************************************)
(* The signaling endpoint of server/main.py: the process-wide room         *)
(* registry conference_rooms and the per-connection coroutine              *)
(* conference_endpoint, together with the room-status query.               *)
(*                                                                         *)
(* One coroutine runs per open connection on a single asyncio event loop.  *)
(* A coroutine runs without interruption from one `await` to the next, so  *)
(* every action below is the code of one handler from the await it is      *)
(* suspended at up to the next await it reaches (or its termination).      *)
(* Every reachable state is therefore a state in which all handlers are    *)
(* suspended, i.e. a state another session or the room query can observe.  *)
(*                                                                         *)
(* A Python dict is modelled as CPython keeps it: an insertion-ordered     *)
(* array of entries in which a deletion leaves a hole (Tomb), a new key is *)
(* appended and an existing key is updated in place.  A dict iterator      *)
(* carries the position in that array, the size it expects (di_used) and   *)
(* the number of items it may still yield (len); it raises RuntimeError    *)
(* when the size differs or when it finds more items than expected.        *)
(* (The entries array is compacted only on the sixth insertion into one    *)
(* dict object, which the message budget below never reaches.)             *)
(***************************************************************************)
EXTENDS Integers, Sequences, FiniteSets, TLC

\* The connections (WebSocket objects) the server may accept, in the order
\* it accepts them.
ConnOrder == <<"c1", "c2", "c3">>

Conns == {ConnOrder[i] : i \in 1..Len(ConnOrder)}

\* Values of secrets.token_hex(4).  Tokens are only ever compared for
\* equality, so a token no session or room holds is represented by the one
\* of this list at the position of the connection that draws it.
Tokens == <<"t1", "t2", "t3">>

\* Meeting identifiers clients name (any hashable, truthy JSON value).
Meetings == {"m1", "m2"}

\* Total number of inbound text messages the handlers process.
MaxMsgs == 3

NoVal == "None"         \* Python None: an absent key of the payload
EmptyStr == ""          \* the empty string, falsy like None
Unhashable == "[1]"     \* a non-empty JSON array: truthy, but unhashable
Forged == "forged"      \* a fromPeerId value supplied by the client

TokenSet == {Tokens[i] : i \in 1..Len(Tokens)}

VARIABLES
    conn,               \* transport of each connection: "none", "open", "closed"
    conference_rooms,   \* meetingId -> dict of peerId -> websocket
    peer_id,            \* handler local: the token drawn at accept
    meeting_id,         \* handler local: set by join and by relay messages
    payload,            \* handler local: json.loads(data), mutated by relays
    pc,                 \* the await each handler is suspended at
    it,                 \* the dict iterator of the loop a handler is in
    out,                \* the send_json call a handler is suspended in
    wrote,              \* the connections the current loop has written to
    received,           \* number of texts the handlers have received
    cleanup,            \* progress of the except-WebSocketDisconnect block
    snap                \* the room a relay or a disconnect block works on, as it was at its start

vars == <<conn, conference_rooms, peer_id, meeting_id, payload, pc, it,
          out, wrote, received, cleanup, snap>>

\* State of the frame-analysis side: the score buffers of face_detector.py
\* and the handlers of the /ws endpoint.
VARIABLES
    score_buffers,      \* _score_buffers: source -> list of raw scores
    wconn,              \* transport of each /ws connection: "none", "open", "closed"
    wpc,                \* the await each /ws handler is suspended at
    fout,               \* the verdict a /ws handler is writing, and the frame it answers
    response,           \* the last response of POST /api/detect/face
    nframes,            \* number of frame messages and POST requests processed
    fed                 \* per declared source, the raw scores of its frames with a face

fvars == <<score_buffers, wconn, wpc, fout, response, nframes, fed>>

-----------------------------------------------------------------------------
(* Python dict, as an entries array *)

Tomb == [k |-> NoVal, ws |-> NoVal]

Live(d) == {i \in 1..Len(d) : d[i] # Tomb}

DictLen(d) == Cardinality(Live(d))

HasKey(d, k) == \E i \in Live(d) : d[i].k = k

IndexOf(d, k) == CHOOSE i \in Live(d) : d[i].k = k

GetItem(d, k) == d[IndexOf(d, k)].ws

SetItem(d, k, v) == IF HasKey(d, k) THEN [d EXCEPT ![IndexOf(d, k)].ws = v] ELSE Append(d, [k |-> k, ws |-> v])

DelItem(d, k) == [d EXCEPT ![IndexOf(d, k)] = Tomb]

LiveSeq(d) == SelectSeq(d, LAMBDA e : e # Tomb)

Keys(d) == [i \in 1..Len(LiveSeq(d)) |-> LiveSeq(d)[i].k]

Values(d) == {d[i].ws : i \in Live(d)}

KeySet(d) == {d[i].k : i \in Live(d)}

MinOf(S) == CHOOSE x \in S : \A y \in S : x <= y

NoIter == [m |-> NoVal, pos |-> 0, used |-> 0, len |-> 0, dead |-> FALSE]

\* iter(d.items()) on the dict stored under meeting m
NewIter(m, d) == [m |-> m, pos |-> 0, used |-> DictLen(d), len |-> DictLen(d), dead |-> FALSE]

\* The dict object an iterator refers to.  A room removed from the registry
\* is empty and stays so (nothing else refers to it); iterators over it are
\* marked dead when it is removed.
IterDict(iter, rooms) == IF iter.dead \/ iter.m \notin DOMAIN rooms THEN << >> ELSE rooms[iter.m]

\* One pass of `for other_peer_id, peer_ws in d.items()` up to the next
\* item whose key is not `skip` (the loops of join and relay skip the
\* sender's own id without suspending).
RECURSIVE IterNext(_, _, _)
IterNext(d, iter, skip) ==
    IF DictLen(d) # iter.used
    THEN [kind |-> "raise", it |-> NoIter, k |-> NoVal, ws |-> NoVal]
    ELSE LET rest == {j \in Live(d) : j > iter.pos} IN
         IF rest = {}
         THEN [kind |-> "stop", it |-> NoIter, k |-> NoVal, ws |-> NoVal]
         ELSE IF iter.len = 0
         THEN [kind |-> "raise", it |-> NoIter, k |-> NoVal, ws |-> NoVal]
         ELSE LET i == MinOf(rest)
                  ni == [iter EXCEPT !.pos = i, !.len = @ - 1]
              IN  IF d[i].k = skip
                  THEN IterNext(d, ni, skip)
                  ELSE [kind |-> "item", it |-> ni, k |-> d[i].k, ws |-> d[i].ws]

-----------------------------------------------------------------------------
(* Messages *)

\* Every outbound message is a record of one shape; a field a message type
\* does not carry is NoVal (or empty).  src and room are history fields, not
\* sent on the wire: the connection whose handler wrote the message and, for
\* a relayed message, the room it named as the registry held it when the
\* message was processed.
NoMsg == [type |-> "none", peerId |-> NoVal, existingPeers |-> << >>, participantCount |-> 0, message |-> NoVal, meetingId |-> NoVal, targetPeerId |-> NoVal, fromPeerId |-> NoVal, src |-> NoVal, room |-> << >>]

ErrorMsg(c, text) == [NoMsg EXCEPT !.type = "error", !.message = text, !.src = c]

JoinedMsg(c, id, existing_peers, count) == [NoMsg EXCEPT !.type = "joined", !.peerId = id, !.existingPeers = existing_peers, !.participantCount = count, !.src = c]

PeerJoinedMsg(c, id, count) == [NoMsg EXCEPT !.type = "peer-joined", !.peerId = id, !.participantCount = count, !.src = c]

PeerLeftMsg(c, id, count) == [NoMsg EXCEPT !.type = "peer-left", !.peerId = id, !.participantCount = count, !.src = c]

\* The relayed object: the inbound object echoed with its fields.
RelayMsg(c, p, room) == [NoMsg EXCEPT !.type = p.type, !.meetingId = p.meetingId, !.targetPeerId = p.targetPeerId, !.fromPeerId = p.fromPeerId, !.src = c, !.room = room]

NoOut == [to |-> NoVal, msg |-> NoMsg]

NoData == [json |-> "none", type |-> NoVal, meetingId |-> NoVal, targetPeerId |-> NoVal, fromPeerId |-> NoVal]

Falsy(v) == v \in {NoVal, EmptyStr}

-----------------------------------------------------------------------------
(* The handler conference_endpoint, as functions from the handler's locals *)
(* L and the registry to the locals and the registry at the next await.    *)

Res(L, rooms) == [L |-> L, rooms |-> rooms]

\* Mutant of AwaitSend: the write is left to run on its own and the handler
\* goes on to the next message.
AwaitSend_nowait(L, rooms, label, to, msg) == Res([L EXCEPT !.pc = "receive", !.out = [to |-> to, msg |-> msg]], rooms)

\* Suspended in `await <to>.send_json(msg)`.
AwaitSend(L, rooms, label, to, msg) == Res([L EXCEPT !.pc = label, !.out = [to |-> to, msg |-> msg]], rooms)

\* Mutant of BackToReceive: `return` where the code has `continue`.
BackToReceive_return(L, rooms) == Res([L EXCEPT !.pc = "returned", !.it = NoIter, !.out = NoOut, !.payload = NoData, !.snap = << >>, !.wrote = << >>], rooms)

\* Back at `data = await ws.receive_text()`; payload and the loop variables
\* are dead there (each is assigned before it is read again).
BackToReceive(L, rooms) == Res([L EXCEPT !.pc = "receive", !.it = NoIter, !.out = NoOut, !.payload = NoData, !.snap = << >>, !.wrote = << >>], rooms)

\* An exception no except clause of the handler catches: the coroutine ends,
\* and its locals with it.
Raised(L, rooms) == Res([L EXCEPT !.pc = "raised", !.peer_id = NoVal, !.meeting_id = NoVal, !.it = NoIter, !.out = NoOut, !.payload = NoData, !.snap = << >>, !.wrote = << >>, !.cleanup = "not_done"], rooms)

\* `return` at the end of the except-WebSocketDisconnect block.
Returned(L, rooms) == Res([L EXCEPT !.pc = "returned", !.peer_id = NoVal, !.meeting_id = NoVal, !.it = NoIter, !.out = NoOut, !.payload = NoData, !.snap = << >>, !.wrote = << >>, !.cleanup = "done"], rooms)

RemoveKey(rooms, m) == [x \in DOMAIN rooms \ {m} |-> rooms[x]]

\* Mutant of DeleteIfEmpty: the emptied room is left in the registry.
DeleteIfEmpty_never(rooms, m) == rooms

\* if not conference_rooms.get(meeting_id): del conference_rooms[meeting_id]
DeleteIfEmpty(rooms, m) == IF DictLen(rooms[m]) = 0 THEN RemoveKey(rooms, m) ELSE rooms

\* Lines 310-312.  `del` of a key the registry no longer holds is a KeyError.
CleanupFinish(c, L, rooms) == IF L.meeting_id \notin DOMAIN rooms THEN Raised(L, rooms) ELSE Returned(L, DeleteIfEmpty(rooms, L.meeting_id))

\* len(conference_rooms.get(meeting_id, {}))
CountOrZero(rooms, m) == IF m \in DOMAIN rooms THEN DictLen(rooms[m]) ELSE 0

\* Lines 301-309: the loop header, then the next peer-left send.
PeerLeftLoop(c, L, rooms) ==
    LET nx == IterNext(IterDict(L.it, rooms), L.it, NoVal) IN
    CASE nx.kind = "raise" -> Raised(L, rooms)
      [] nx.kind = "stop" -> CleanupFinish(c, L, rooms)
      [] OTHER -> AwaitSend([L EXCEPT !.it = nx.it], rooms, "send_peer_left", nx.ws, PeerLeftMsg(c, L.peer_id, CountOrZero(rooms, L.meeting_id)))

RemoveMember(rooms, m, id) == IF HasKey(rooms[m], id) THEN [rooms EXCEPT ![m] = DelItem(@, id)] ELSE rooms

\* Lines 296-301: entry of the except-WebSocketDisconnect block.
CleanupEnter(c, L0, rooms) ==
    LET L == [L0 EXCEPT !.cleanup = "running", !.it = NoIter, !.out = NoOut, !.payload = NoData, !.snap = << >>, !.wrote = << >>]
        m == L.meeting_id
    IN  IF Falsy(m) THEN Returned(L, rooms)
        ELSE IF m = Unhashable THEN Raised(L, rooms)
        ELSE IF m \notin DOMAIN rooms THEN Returned(L, rooms)
        ELSE LET r1 == RemoveMember(rooms, m, L.peer_id)
             IN  PeerLeftLoop(c, [L EXCEPT !.it = NewIter(m, r1[m]), !.snap = LiveSeq(rooms[m])], r1)

\* Lines 292-294: the inner except clause.
InvalidPayload(c, L, rooms) == AwaitSend([L EXCEPT !.payload = NoData], rooms, "send_error_invalid", c, ErrorMsg(c, "Invalid payload"))

\* Lines 266-272: the loop header, then the next peer-joined send.
PeerJoinedLoop(c, L, rooms) ==
    LET nx == IterNext(IterDict(L.it, rooms), L.it, L.peer_id) IN
    CASE nx.kind = "raise" -> Raised(L, rooms)
      [] nx.kind = "stop" -> BackToReceive(L, rooms)
      [] OTHER -> AwaitSend([L EXCEPT !.it = nx.it], rooms, "send_peer_joined", nx.ws, PeerJoinedMsg(c, L.peer_id, DictLen(rooms[L.meeting_id])))

\* Line 266: conference_rooms[meeting_id].items(), a KeyError when the room
\* has been removed while the joined reply was being written.
PeerJoinedStart(c, L, rooms) == IF L.meeting_id \notin DOMAIN rooms THEN Raised(L, rooms) ELSE PeerJoinedLoop(c, [L EXCEPT !.it = NewIter(L.meeting_id, rooms[L.meeting_id])], rooms)

\* if meeting_id not in conference_rooms: conference_rooms[meeting_id] = {}
EnsureRoom(rooms, m) == IF m \in DOMAIN rooms THEN rooms ELSE [x \in DOMAIN rooms \cup {m} |-> IF x = m THEN << >> ELSE rooms[x]]

\* existing_peers = list(conference_rooms[meeting_id].keys())
ExistingPeers(rooms, m) == Keys(rooms[m])

\* conference_rooms[meeting_id][peer_id] = ws
AddMember(rooms, m, id, ws) == [rooms EXCEPT ![m] = SetItem(@, id, ws)]

\* Lines 242-263: a join, up to the await of the joined reply.
Join(c, L0, rooms) ==
    LET m == L0.payload.meetingId
        L == [L0 EXCEPT !.meeting_id = m, !.payload = NoData]
    IN  IF Falsy(m) THEN AwaitSend(L, rooms, "send_error_join", c, ErrorMsg(c, "Meeting ID required"))
        ELSE IF m = Unhashable THEN InvalidPayload(c, L, rooms)
        ELSE LET r0 == EnsureRoom(rooms, m)
                 existing_peers == ExistingPeers(r0, m)
                 r1 == AddMember(r0, m, L.peer_id, c)
             IN  AwaitSend(L, r1, "send_joined", c, JoinedMsg(c, L.peer_id, existing_peers, DictLen(r1[m])))

\* Mutant of StampFrom: the client's fromPeerId is relayed as it came.
StampFrom_keep(p, id) == p

\* payload["fromPeerId"] = peer_id
StampFrom(p, id) == [p EXCEPT !.fromPeerId = id]

\* target_peer_id and target_peer_id in conference_rooms[meeting_id]
IsTargeted(d, target_peer_id) == ~Falsy(target_peer_id) /\ HasKey(d, target_peer_id)

\* Mutant of TargetWs: the relay goes to the first member of the room.
TargetWs_first(d, target_peer_id) == d[MinOf(Live(d))].ws

\* conference_rooms[meeting_id][target_peer_id]
TargetWs(d, target_peer_id) == GetItem(d, target_peer_id)

\* Lines 287-290: the loop header, then the next broadcast send.
BroadcastLoop(c, L, rooms) ==
    LET nx == IterNext(IterDict(L.it, rooms), L.it, L.peer_id) IN
    CASE nx.kind = "raise" -> Raised(L, rooms)
      [] nx.kind = "stop" -> BackToReceive(L, rooms)
      [] OTHER -> LET p == StampFrom(L.payload, L.peer_id)
                  IN  AwaitSend([L EXCEPT !.it = nx.it, !.payload = p], rooms, "send_broadcast", nx.ws, RelayMsg(c, p, L.snap))

\* Lines 274-290: an offer, answer or ice-candidate, up to its first await.
Relay(c, L0, rooms) ==
    LET target_peer_id == L0.payload.targetPeerId
        m == L0.payload.meetingId
        L == [L0 EXCEPT !.meeting_id = m]
    IN  IF Falsy(m) THEN BackToReceive(L, rooms)
        ELSE IF m = Unhashable THEN InvalidPayload(c, L, rooms)
        ELSE IF m \notin DOMAIN rooms THEN BackToReceive(L, rooms)
        ELSE IF target_peer_id = Unhashable THEN InvalidPayload(c, L, rooms)
        ELSE LET Ls == [L EXCEPT !.snap = rooms[m]] IN
             IF IsTargeted(rooms[m], target_peer_id)
             THEN LET p == StampFrom(Ls.payload, Ls.peer_id)
                  IN  AwaitSend([Ls EXCEPT !.payload = p], rooms, "send_target", TargetWs(rooms[m], target_peer_id), RelayMsg(c, p, Ls.snap))
             ELSE BroadcastLoop(c, [Ls EXCEPT !.it = NewIter(m, rooms[m])], rooms)

\* Lines 237-294: one received text, up to the first await it reaches.
\* json.loads raises ValueError on text that is not JSON; payload.get raises
\* AttributeError, which no clause catches, when the JSON is not an object.
Process(c, L0, rooms, d) ==
    LET L == L0 IN
    CASE d.json = "invalid" -> InvalidPayload(c, L, rooms)
      [] d.json = "nonobject" -> Raised([L EXCEPT !.payload = d], rooms)
      [] OTHER -> LET Lp == [L EXCEPT !.payload = d] IN
                  CASE d.type = "join" -> Join(c, Lp, rooms)
                    [] d.type = "offer" -> Relay(c, Lp, rooms)
                    [] OTHER -> BackToReceive(Lp, rooms)

\* A write that an exception ended: WebSocketDisconnect enters the disconnect
\* block, anything else leaves the handler.
SendFailed(c, L, rooms, o) == IF o = "disconnect" THEN CleanupEnter(c, L, rooms) ELSE Raised(L, rooms)

\* API endpoint to check room status
get_room_info(m) == IF m \in DOMAIN conference_rooms THEN [exists |-> TRUE, participantCount |-> DictLen(conference_rooms[m]), maxParticipants |-> 10] ELSE [exists |-> FALSE, participantCount |-> 0, maxParticipants |-> 10]

-----------------------------------------------------------------------------
(* Score smoothing, face_detector.py.  Scores, means and confidences are   *)
(* fixed-point numbers in thousandths; a mean is kept as the fraction      *)
(* num / den, so that every comparison with a threshold is exact.          *)

Scale == 1000

BUFFER_SIZE == 25

DEEPFAKE_STRICTNESS == 920

OUTLIER_THRESHOLD == 120

\* The 0.99 of min(0.99, ...).
ConfidenceCap == 990

\* Shortest history the outlier filter is applied to.
MinForOutliers == 5

\* i ** 1.5 for i = 1 .. BUFFER_SIZE, in thousandths.
Weights == <<1000, 2828, 5196, 8000, 11180, 14697, 18520, 22627, 27000, 31623, 36483, 41569, 46872, 52383, 58095, 64000, 70093, 76368, 82819, 89443, 96234, 103189, 110304, 117576, 125000>>

\* The raw scores model.predict returns in the model.
Scores == {0, 500, 880, 920, 1000}

Abs(x) == IF x < 0 THEN 0 - x ELSE x

MinNum(x, y) == IF x <= y THEN x ELSE y

\* Mutant of Push: pop() where the code has pop(0).
Push_pop_last(buf, prediction) == IF Len(buf) + 1 > BUFFER_SIZE THEN buf ELSE Append(buf, prediction)

\* _score_buffers[source].append(prediction), then pop(0) when the list is
\* longer than BUFFER_SIZE.
Push(buf, prediction) == IF Len(buf) + 1 > BUFFER_SIZE THEN Tail(Append(buf, prediction)) ELSE Append(buf, prediction)

\* sorted(scores)[len(scores) // 2]
Median(scores) == CHOOSE v \in {scores[i] : i \in 1..Len(scores)} : Cardinality({i \in 1..Len(scores) : scores[i] < v}) <= Len(scores) \div 2 /\ Len(scores) \div 2 < Cardinality({i \in 1..Len(scores) : scores[i] <= v})

\* [s for s in scores if abs(s - median_score) < OUTLIER_THRESHOLD]
WithoutOutliers(scores) == LET median_score == Median(scores) IN SelectSeq(scores, LAMBDA s : Abs(s - median_score) < OUTLIER_THRESHOLD)

\* Lines 239-244: the scores the mean is taken of.
WorkingSet(buf) == IF Len(buf) >= MinForOutliers THEN LET kept == WithoutOutliers(buf) IN IF Len(kept) = 0 THEN buf ELSE kept ELSE buf

RECURSIVE WeightedSum(_, _)
\* sum(s * w for s, w in zip(scores, weights)), over the first n scores
WeightedSum(scores, n) == IF n = 0 THEN 0 ELSE WeightedSum(scores, n - 1) + scores[n] * Weights[n]

RECURSIVE TotalWeight(_)
\* sum(weights), for n weights
TotalWeight(n) == IF n = 0 THEN 0 ELSE TotalWeight(n - 1) + Weights[n]

\* Mutant of IsFake: `>` where the code has `>=`.
IsFake_above(num, den) == num > DEEPFAKE_STRICTNESS * den

\* is_fake = bool(avg_score >= DEEPFAKE_STRICTNESS), for avg_score = num / den
IsFake(num, den) == num >= DEEPFAKE_STRICTNESS * den

\* display_confidence, as a numerator over den: min(0.99, avg_score) when
\* fake, min(0.99, 1.0 - avg_score) otherwise.
DisplayConfidence(is_fake, num, den) == IF is_fake THEN MinNum(ConfidenceCap * den, num) ELSE MinNum(ConfidenceCap * den, Scale * den - num)

\* Lines 246-272: the result for a history that has just been appended to.
\* avg is avg_score = avg.num / avg.den; confidence likewise.
Smooth(buf) ==
    LET scores == WorkingSet(buf)
        num == WeightedSum(scores, Len(scores))
        den == TotalWeight(Len(scores))
        is_fake == IsFake(num, den)
    IN  [is_fake |-> is_fake, confidence |-> [num |-> DisplayConfidence(is_fake, num, den), den |-> den], avg |-> [num |-> num, den |-> den],
         message |-> IF is_fake THEN "DEEPFAKE DETECTED" ELSE "GENUINE FACE", face_detected |-> TRUE]

\* A FaceDetectionResult with face_detected=False.
NotDetected(message) == [is_fake |-> FALSE, confidence |-> [num |-> 0, den |-> 1], avg |-> [num |-> 0, den |-> 1], message |-> message, face_detected |-> FALSE]

\* Lines 229-236: the buffers after a prediction for `source`.
Scored(buffers, source, prediction) == [s \in DOMAIN buffers \cup {source} |-> IF s = source THEN Push(IF s \in DOMAIN buffers THEN buffers[s] ELSE << >>, prediction) ELSE buffers[s]]

\* Mutant of detect_face_deepfake: the frame is scored before the face check
\* (a frame without a face scores 0).
detect_face_deepfake_scores_all(buffers, image, source) ==
    LET b == Scored(buffers, source, IF image.frame = "face" THEN image.score ELSE 0)
    IN  [buffers |-> b, result |-> IF image.frame = "face" THEN Smooth(b[source]) ELSE NotDetected("No face detected")]

\* detect_face_deepfake, for decoded image bytes: a frame in which no face
\* (of sufficient size) is found is answered before anything is scored.
detect_face_deepfake(buffers, image, source) ==
    IF image.frame # "face" THEN [buffers |-> buffers, result |-> NotDetected("No face detected")]
    ELSE LET b == Scored(buffers, source, image.score) IN [buffers |-> b, result |-> Smooth(b[source])]

\* detect_face_from_base64: a string shorter than 100 characters and one
\* b64decode rejects are answered without a call of detect_face_deepfake.
detect_face_from_base64(buffers, image, source) ==
    CASE image.frame \in {"absent", "short"} -> [buffers |-> buffers, result |-> NotDetected("Invalid image data")]
      [] image.frame \in {"undecodable", "number"} -> [buffers |-> buffers, result |-> NotDetected("Error processing image")]
      [] OTHER -> detect_face_deepfake(buffers, image, source)

\* round(x, 3) of the fraction num / den, in thousandths (to the nearest).
Round3(q) == (q.num + q.den \div 2) \div q.den

\* The source _analyze_frame_with_ai scores under when its caller names none.
Dashboard == "dashboard"

\* _analyze_frame_with_ai(frame_b64, source): the verdict, and the buffers.
\* len() of a number raises TypeError, which the except clause turns into a
\* verdict.
analyze_frame_with_ai(buffers, image, source) ==
    CASE image.frame \in {"absent", "short"} -> [buffers |-> buffers, verdict |-> [is_fake |-> FALSE, confidence |-> 0, alert_msg |-> "Invalid frame data", face_detected |-> FALSE, timestamp |-> TRUE]]
      [] image.frame = "number" -> [buffers |-> buffers, verdict |-> [is_fake |-> FALSE, confidence |-> 0, alert_msg |-> "Detection error", face_detected |-> FALSE, timestamp |-> TRUE]]
      [] OTHER -> LET r == detect_face_from_base64(buffers, image, source)
                  IN  [buffers |-> r.buffers,
                       verdict |-> IF r.result.face_detected
                                   THEN [is_fake |-> r.result.is_fake, confidence |-> Round3(r.result.confidence), alert_msg |-> r.result.message, face_detected |-> TRUE, timestamp |-> TRUE]
                                   ELSE [is_fake |-> FALSE, confidence |-> 0, alert_msg |-> r.result.message, face_detected |-> FALSE, timestamp |-> TRUE]]

\* {"is_fake": True, "confidence": 0.99, "alert_msg": "Bad payload"}
BadPayload == [is_fake |-> TRUE, confidence |-> 990, alert_msg |-> "Bad payload", face_detected |-> FALSE, timestamp |-> FALSE]

NoVerdict == [is_fake |-> FALSE, confidence |-> 0, alert_msg |-> NoVal, face_detected |-> FALSE, timestamp |-> FALSE]

-----------------------------------------------------------------------------
(* The frame-analysis endpoints: the /ws handler websocket_endpoint and    *)
(* POST /api/detect/face.  Both call into the one process-wide             *)
(* _score_buffers.  A frame is modelled by what the pipeline makes of it:  *)
(*   "absent"       no frame key, null or the empty string                 *)
(*   "short"        a string of fewer than 100 characters                  *)
(*   "number"       a JSON number (truthy, without a length)               *)
(*   "undecodable"  a long string that base64 or the image decoder rejects *)
(*   "noface"       an image in which no usable face is found              *)
(*   "face"         an image with a face, which the classifier scores      *)

WConns == {"w1"}

MaxFrames == 3

FrameKinds == {"absent", "short", "number", "undecodable", "noface", "face"}

\* The values of a frame message's source field.
DeclaredSources == {NoVal, "local", "remote"}

\* The texts a client may send to /ws.
FrameInputs ==
    {[json |-> j, frame |-> "absent", score |-> 0, source |-> NoVal] : j \in {"invalid", "nonobject"}}
    \cup {[json |-> "object", frame |-> k, score |-> 0, source |-> s] : k \in FrameKinds \ {"face"}, s \in DeclaredSources}
    \cup {[json |-> "object", frame |-> "face", score |-> x, source |-> s] : x \in Scores, s \in DeclaredSources}

\* The bodies FrameData accepts: frame is a string.
PostInputs == {d \in FrameInputs : d.json = "object" /\ d.frame \notin {"absent", "number"} /\ d.source # "remote"}

NoFrame == [json |-> NoVal, frame |-> "absent", score |-> 0, source |-> NoVal]

NoFout == [msg |-> NoVerdict, input |-> NoFrame]

NoResponse == [is_fake |-> FALSE, confidence |-> [num |-> 0, den |-> 1], message |-> NoVal, face_detected |-> FALSE]

\* A history of n equal scores.
Filled(n, x) == [i \in 1..n |-> x]

\* Buffers the process has after earlier frames on /ws.
Histories == {<< >>, Dashboard :> Filled(MinForOutliers - 1, 1000), Dashboard :> Filled(BUFFER_SIZE - 1, 0)}

\* The source a frame message declares: the sentinel when it names none.
DeclaredSource(d) == IF d.source = NoVal THEN Dashboard ELSE d.source

\* data.source or "default"
PostSource(d) == IF Falsy(d.source) THEN "default" ELSE d.source

FrameIdle ==
    /\ wconn = [w \in WConns |-> "none"]
    /\ wpc = [w \in WConns |-> "idle"]
    /\ fout = [w \in WConns |-> NoFout]
    /\ response = NoResponse
    /\ nframes = 0

-----------------------------------------------------------------------------
(* The texts a client may send *)

MeetingVals == Meetings \cup {NoVal, Unhashable}

TargetVals == TokenSet \cup {NoVal, Unhashable}

Object(type, m, t, f) == [json |-> "object", type |-> type, meetingId |-> m, targetPeerId |-> t, fromPeerId |-> f]

\* "offer" stands for offer, answer and ice-candidate, which share a branch;
\* "other" for an object of any other type.
Inputs ==
    {[NoData EXCEPT !.json = "invalid"], [NoData EXCEPT !.json = "nonobject"], Object("other", NoVal, NoVal, NoVal)}
    \cup {Object("join", m, NoVal, NoVal) : m \in MeetingVals}
    \cup {Object("offer", m, t, f) : m \in MeetingVals, t \in TargetVals, f \in {NoVal, Forged}}

-----------------------------------------------------------------------------
(* State machine *)

Loc(c) == [pc |-> pc[c], peer_id |-> peer_id[c], meeting_id |-> meeting_id[c], payload |-> payload[c], it |-> it[c], out |-> out[c], cleanup |-> cleanup[c], snap |-> snap[c], wrote |-> wrote[c]]

\* The send_json call handler c was suspended in has ended with outcome o.
AfterSend(c, o) == [Loc(c) EXCEPT !.wrote = IF o = "ok" THEN Append(@, out[c].to) ELSE @]

\* A dict no loop is iterating over, without the holes deletions left in it
\* (they matter to iterators only).
Compact(rooms, its) == [m \in DOMAIN rooms |-> IF \E d \in Conns : its[d].m = m /\ ~its[d].dead THEN rooms[m] ELSE LiveSeq(rooms[m])]

NextIters(c, r) == [d \in Conns |-> IF d = c THEN r.L.it ELSE IF it[d].m \in DOMAIN conference_rooms /\ it[d].m \notin DOMAIN r.rooms THEN [it[d] EXCEPT !.dead = TRUE] ELSE it[d]]

\* Handler c is at its next await (or has ended) with locals r.L and the
\* registry is r.rooms.  The server closes the connection of a handler that
\* has ended; iterators over a dict that left the registry in this step are
\* dead.
Apply(c, r) ==
    /\ conference_rooms' = Compact(r.rooms, NextIters(c, r))
    /\ pc' = [pc EXCEPT ![c] = r.L.pc]
    /\ meeting_id' = [meeting_id EXCEPT ![c] = r.L.meeting_id]
    /\ payload' = [payload EXCEPT ![c] = r.L.payload]
    /\ out' = [out EXCEPT ![c] = r.L.out]
    /\ cleanup' = [cleanup EXCEPT ![c] = r.L.cleanup]
    /\ snap' = [snap EXCEPT ![c] = r.L.snap]
    /\ wrote' = [wrote EXCEPT ![c] = r.L.wrote]
    /\ it' = NextIters(c, r)
    /\ conn' = [conn EXCEPT ![c] = IF r.L.pc \in {"returned", "raised"} THEN "closed" ELSE @]
    /\ peer_id' = [peer_id EXCEPT ![c] = r.L.peer_id]

\* What a write to connection d can do.  An open connection takes the
\* message.  On a connection that is gone the outcome depends on the ASGI
\* server and the Starlette release in use: the message is dropped and the
\* call returns, or the call raises WebSocketDisconnect, or it raises
\* another exception (RuntimeError, ConnectionClosed).
Outcomes(d) == IF conn[d] = "open" THEN {"ok"} ELSE {"lost", "disconnect", "error"}

\* No connection has been accepted and the registry is empty.
Idle ==
    /\ conn = [c \in Conns |-> "none"]
    /\ conference_rooms = << >>
    /\ peer_id = [c \in Conns |-> NoVal]
    /\ meeting_id = [c \in Conns |-> NoVal]
    /\ payload = [c \in Conns |-> NoData]
    /\ pc = [c \in Conns |-> "idle"]
    /\ it = [c \in Conns |-> NoIter]
    /\ out = [c \in Conns |-> NoOut]
    /\ wrote = [c \in Conns |-> << >>]
    /\ received = 0
    /\ cleanup = [c \in Conns |-> "none"]
    /\ snap = [c \in Conns |-> << >>]

Init ==
    /\ Idle
    /\ FrameIdle
    /\ score_buffers = << >>
    /\ fed = << >>

\* The tokens a live handler or a room entry holds.
UsedTokens == {peer_id[c] : c \in {x \in Conns : pc[x] \notin {"idle", "returned", "raised"}}} \cup UNION {KeySet(conference_rooms[m]) : m \in DOMAIN conference_rooms}

FreshToken(c) == Tokens[CHOOSE i \in 1..Len(ConnOrder) : ConnOrder[i] = c]

\* What token_hex(4) may return to connection c: a token in use (a
\* collision, which nothing in the code excludes) or one not in use.
TokenChoices(c) == UsedTokens \cup {FreshToken(c)}

\* Connections are interchangeable: one that has been accepted and has done
\* nothing observable stands for every connection that has done nothing.
Pristine(c) == conn[c] = "none" \/ (conn[c] = "open" /\ pc[c] = "receive" /\ meeting_id[c] = NoVal)

\* Lines 231-233: ws.accept(), meeting_id = None, peer_id = token_hex(4).
\* Connections are accepted in the order of ConnOrder, the next one once
\* the one before it has done something.
Accept(c) ==
    /\ conn[c] = "none"
    /\ \A i \in 1..Len(ConnOrder) : ConnOrder[i] = c => \A j \in 1..(i - 1) : ~Pristine(ConnOrder[j])
    /\ \E t \in TokenChoices(c) : peer_id' = [peer_id EXCEPT ![c] = t]
    /\ conn' = [conn EXCEPT ![c] = "open"]
    /\ pc' = [pc EXCEPT ![c] = "receive"]
    /\ UNCHANGED <<conference_rooms, meeting_id, payload, it, out, wrote, received, cleanup, snap>>

\* The client goes away (closes, or the network fails), at any time.
ClientClose(c) ==
    /\ conn[c] = "open"
    /\ conn' = [conn EXCEPT ![c] = "closed"]
    /\ UNCHANGED <<conference_rooms, peer_id, meeting_id, payload, pc, it, out, wrote, received, cleanup, snap>>

\* Meeting ids are interchangeable too: while neither is held by the
\* registry or by a handler, the one a client names is "m1".
InUse == DOMAIN conference_rooms # {} \/ \E c \in Conns : meeting_id[c] \in Meetings

\* Line 237 returns a text.
Receive(c) ==
    /\ pc[c] = "receive"
    /\ conn[c] = "open"
    /\ received < MaxMsgs
    /\ received' = received + 1
    /\ \E d \in {x \in Inputs : x.meetingId = "m2" => InUse} : Apply(c, Process(c, Loc(c), conference_rooms, d))

\* Line 237 raises WebSocketDisconnect.
ReceiveDisconnect(c) ==
    /\ pc[c] = "receive"
    /\ conn[c] = "closed"
    /\ Apply(c, CleanupEnter(c, Loc(c), conference_rooms))
    /\ UNCHANGED received

\* Lines 245-246 and 293-294: the error reply is written; continue.
ErrorSent(c) ==
    /\ pc[c] \in {"send_error_join", "send_error_invalid"}
    /\ \E o \in Outcomes(out[c].to) :
          Apply(c, IF o \in {"ok", "lost"} THEN BackToReceive(AfterSend(c, o), conference_rooms) ELSE SendFailed(c, Loc(c), conference_rooms, o))
    /\ UNCHANGED received

\* Lines 258-266: the joined reply is written; the notification loop starts.
JoinedSent(c) ==
    /\ pc[c] = "send_joined"
    /\ \E o \in Outcomes(out[c].to) :
          Apply(c, IF o \in {"ok", "lost"} THEN PeerJoinedStart(c, AfterSend(c, o), conference_rooms) ELSE SendFailed(c, Loc(c), conference_rooms, o))
    /\ UNCHANGED received

\* Lines 268-272: a peer-joined is written; the loop goes on.
PeerJoinedSent(c) ==
    /\ pc[c] = "send_peer_joined"
    /\ \E o \in Outcomes(out[c].to) :
          Apply(c, IF o \in {"ok", "lost"} THEN PeerJoinedLoop(c, AfterSend(c, o), conference_rooms) ELSE SendFailed(c, Loc(c), conference_rooms, o))
    /\ UNCHANGED received

\* Line 284: the relay to the target is written.
TargetSent(c) ==
    /\ pc[c] = "send_target"
    /\ \E o \in Outcomes(out[c].to) :
          Apply(c, IF o \in {"ok", "lost"} THEN BackToReceive(AfterSend(c, o), conference_rooms) ELSE SendFailed(c, Loc(c), conference_rooms, o))
    /\ UNCHANGED received

\* Line 290: one copy of a broadcast is written; the loop goes on.
BroadcastSent(c) ==
    /\ pc[c] = "send_broadcast"
    /\ \E o \in Outcomes(out[c].to) :
          Apply(c, IF o \in {"ok", "lost"} THEN BroadcastLoop(c, AfterSend(c, o), conference_rooms) ELSE SendFailed(c, Loc(c), conference_rooms, o))
    /\ UNCHANGED received

\* Lines 302-309: a peer-left is written, or the write raised and the bare
\* except swallowed it; the loop goes on.
PeerLeftSent(c) ==
    /\ pc[c] = "send_peer_left"
    /\ \E o \in Outcomes(out[c].to) :
          Apply(c, PeerLeftLoop(c, AfterSend(c, o), conference_rooms))
    /\ UNCHANGED received

Next ==
    \E c \in Conns :
        \/ Accept(c) /\ UNCHANGED fvars
        \/ ClientClose(c) /\ UNCHANGED fvars
        \/ Receive(c) /\ UNCHANGED fvars
        \/ ReceiveDisconnect(c) /\ UNCHANGED fvars
        \/ ErrorSent(c) /\ UNCHANGED fvars
        \/ JoinedSent(c) /\ UNCHANGED fvars
        \/ PeerJoinedSent(c) /\ UNCHANGED fvars
        \/ TargetSent(c) /\ UNCHANGED fvars
        \/ BroadcastSent(c) /\ UNCHANGED fvars
        \/ PeerLeftSent(c) /\ UNCHANGED fvars

Spec == Init /\ [][Next]_<<vars, fvars>>

-----------------------------------------------------------------------------
(* State machine of the frame-analysis endpoints *)

FrameInit ==
    /\ Idle
    /\ FrameIdle
    /\ score_buffers \in Histories
    /\ fed = score_buffers

\* await ws.accept()
FrameAccept(w) ==
    /\ wconn[w] = "none"
    /\ wconn' = [wconn EXCEPT ![w] = "open"]
    /\ wpc' = [wpc EXCEPT ![w] = "receive"]
    /\ UNCHANGED <<score_buffers, fout, response, nframes, fed>>

\* The client closes the connection.
FrameClose(w) ==
    /\ wconn[w] = "open"
    /\ wconn' = [wconn EXCEPT ![w] = "closed"]
    /\ UNCHANGED <<score_buffers, wpc, fout, response, nframes, fed>>

\* data = await ws.receive_text() returns d; the handler runs to its next
\* await.  json.loads raising ValueError leads to the "Bad payload" write;
\* a JSON value without .get raises AttributeError, which nothing catches.
FrameReceive(w) ==
    /\ wpc[w] = "receive"
    /\ wconn[w] = "open"
    /\ nframes < MaxFrames
    /\ nframes' = nframes + 1
    /\ \E d \in FrameInputs :
        CASE d.json = "invalid" ->
                /\ wpc' = [wpc EXCEPT ![w] = "send_bad"]
                /\ fout' = [fout EXCEPT ![w] = [msg |-> BadPayload, input |-> d]]
                /\ UNCHANGED <<score_buffers, wconn, fed>>
          [] d.json = "nonobject" ->
                /\ wpc' = [wpc EXCEPT ![w] = "raised"]
                /\ wconn' = [wconn EXCEPT ![w] = "closed"]
                /\ fout' = [fout EXCEPT ![w] = [msg |-> NoVerdict, input |-> d]]
                /\ UNCHANGED <<score_buffers, fed>>
          [] OTHER ->
                LET r == analyze_frame_with_ai(score_buffers, d, Dashboard)
                IN  /\ score_buffers' = r.buffers
                    /\ wpc' = [wpc EXCEPT ![w] = "send_verdict"]
                    /\ fout' = [fout EXCEPT ![w] = [msg |-> r.verdict, input |-> d]]
                    /\ fed' = IF d.frame = "face" THEN Scored(fed, DeclaredSource(d), d.score) ELSE fed
                    /\ UNCHANGED wconn
    /\ UNCHANGED response

\* ws.receive_text() raises WebSocketDisconnect: return.
FrameReceiveDisconnect(w) ==
    /\ wpc[w] = "receive"
    /\ wconn[w] = "closed"
    /\ wpc' = [wpc EXCEPT ![w] = "returned"]
    /\ UNCHANGED <<score_buffers, wconn, fout, response, nframes, fed>>

\* The end of a write on /ws: on an open connection the handler goes on to
\* `next`; on a closed one the write raises WebSocketDisconnect (return) or
\* another error (raised), or is lost without an error.
FrameSent(w, next) ==
    /\ \E p \in (IF wconn[w] = "open" THEN {next} ELSE {next, "returned", "raised"}) : wpc' = [wpc EXCEPT ![w] = p]
    /\ fout' = [fout EXCEPT ![w] = NoFout]
    /\ UNCHANGED <<score_buffers, wconn, response, nframes, fed>>

\* await ws.send_json({... "Bad payload"}) is over; continue
BadSent(w) ==
    /\ wpc[w] = "send_bad"
    /\ FrameSent(w, "receive")

\* await ws.send_json(result) is over
VerdictSent(w) ==
    /\ wpc[w] = "send_verdict"
    /\ FrameSent(w, "sleep")

\* await asyncio.sleep(0) is over
Yielded(w) ==
    /\ wpc[w] = "sleep"
    /\ wpc' = [wpc EXCEPT ![w] = "receive"]
    /\ UNCHANGED <<score_buffers, wconn, fout, response, nframes, fed>>

\* POST /api/detect/face with body d.
detect_face ==
    /\ nframes < MaxFrames
    /\ nframes' = nframes + 1
    /\ \E d \in PostInputs :
        LET r == detect_face_from_base64(score_buffers, d, PostSource(d))
        IN  /\ score_buffers' = r.buffers
            /\ response' = [is_fake |-> r.result.is_fake, confidence |-> r.result.confidence, message |-> r.result.message, face_detected |-> r.result.face_detected]
            /\ fed' = IF d.frame = "face" THEN Scored(fed, PostSource(d), d.score) ELSE fed
    /\ UNCHANGED <<wconn, wpc, fout>>

FrameNext ==
    \/ detect_face /\ UNCHANGED vars
    \/ \E w \in WConns :
        \/ FrameAccept(w) /\ UNCHANGED vars
        \/ FrameClose(w) /\ UNCHANGED vars
        \/ FrameReceive(w) /\ UNCHANGED vars
        \/ FrameReceiveDisconnect(w) /\ UNCHANGED vars
        \/ BadSent(w) /\ UNCHANGED vars
        \/ VerdictSent(w) /\ UNCHANGED vars
        \/ Yielded(w) /\ UNCHANGED vars

FrameSpec == FrameInit /\ [][FrameNext]_<<vars, fvars>>

-----------------------------------------------------------------------------
(* Properties *)

\* The rooms that hold session c's websocket.
RoomsOf(c) == {m \in DOMAIN conference_rooms : c \in Values(conference_rooms[m])}

Range(q) == {q[i] : i \in 1..Len(q)}

Ended(c) == pc[c] \in {"returned", "raised"}

\* No entry of any room stores another session's websocket under c's id.
NoForeignEntry(c) == \A m \in DOMAIN conference_rooms : \A i \in Live(conference_rooms[m]) : conference_rooms[m][i].k = peer_id[c] => conference_rooms[m][i].ws = c

\* C1: in every reachable state each session is a member of at most one room.
C1_OneRoomPerSession == \A c \in Conns : Cardinality(RoomsOf(c)) <= 1

\* C2: once a session's disconnect handling has finished, the session is a
\* member of no room of the registry.
C2_GoneAfterCleanup == \A c \in Conns : pc[c] = "returned" => RoomsOf(c) = {}

\* C3: in every state in which all handlers are suspended, no room of the
\* registry has zero members, and the room-status query never answers
\* exists = true with participantCount = 0.
C3_NoEmptyRoom == \A m \in Meetings : (m \in DOMAIN conference_rooms => DictLen(conference_rooms[m]) >= 1) /\ ~(get_room_info(m).exists /\ get_room_info(m).participantCount = 0)

\* C3 witness: a handler suspended in its peer-left loop finds that the room
\* it iterates over has meanwhile been emptied by another disconnect and
\* has left the registry.
C3_Witness == \E c \in Conns : pc[c] = "send_peer_left" /\ it[c].dead /\ it[c].m \notin DOMAIN conference_rooms

\* C4: when the only messages so far are one join of room m from each of n
\* sessions, and none has disconnected, the joined reply of each of them
\* lists only other sessions: never its own id, and fewer than n ids.
C4_JoinSnapshots == \A m \in Meetings : \A c \in Conns : LET J == {d \in Conns : meeting_id[d] = m} IN (pc[c] = "send_joined" /\ meeting_id[c] = m /\ received = Cardinality(J) /\ \A d \in Conns : conn[d] # "closed" /\ ~Ended(d)) => (peer_id[c] \notin Range(out[c].msg.existingPeers) /\ Len(out[c].msg.existingPeers) < Cardinality(J))

\* C5: the existingPeers of every joined reply, also that of a session that
\* is already a member of the room it joins, never holds the joining
\* session's own id.  (Stated for a session whose id no other session's
\* entry carries.)
C5_SelfNotListed == [][\A c \in Conns : (pc[c] = "receive" /\ pc'[c] = "send_joined" /\ NoForeignEntry(c)) => peer_id[c] \notin Range(out'[c].msg.existingPeers)]_vars

\* C6: a connection handler that has ended has run the disconnect block,
\* once and to its end.
C6_CleanupOnEveryEnd == \A c \in Conns : Ended(c) => cleanup[c] = "done"

\* C7: a relay that names an active room and a targetPeerId that is a member
\* of it is written to the websocket stored under that id and to nothing
\* else: it is never broadcast, and no other write belongs to it.
C7_TargetOnly == \A c \in Conns : (pc[c] \in {"send_target", "send_broadcast"} /\ ~Falsy(payload[c].targetPeerId) /\ HasKey(snap[c], payload[c].targetPeerId)) => (pc[c] = "send_target" /\ out[c].to = GetItem(snap[c], payload[c].targetPeerId) /\ out[c].msg.targetPeerId = payload[c].targetPeerId /\ wrote[c] = << >> /\ it[c] = NoIter)

\* C7 witness: a relay is being written to its target, an open session
\* other than the sender, in a room with further members.
C7_Witness == \E c \in Conns : pc[c] = "send_target" /\ out[c].to # c /\ conn[out[c].to] = "open" /\ DictLen(snap[c]) >= 2 /\ Values(snap[c]) # {out[c].to}

\* The connections a broadcast of c has been written to when the write it is
\* suspended in has ended (a write to an open connection succeeds).
WroteAtEnd(c) == IF conn[out[c].to] = "open" THEN Append(wrote[c], out[c].to) ELSE wrote[c]

Copies(q, d) == Cardinality({i \in 1..Len(q) : q[i] = d})

\* The sessions a broadcast of c owes a copy: those stored in the room under
\* another id than the sender's when the relay was processed, still stored
\* in it and still connected when the broadcast ends.
Owed(c) == {d \in Conns \ {c} : /\ \E i \in Live(snap[c]) : snap[c][i].ws = d /\ snap[c][i].k # peer_id[c]
                                /\ it[c].m \in DOMAIN conference_rooms
                                /\ d \in Values(conference_rooms[it[c].m])
                                /\ conn[d] = "open"}

\* C8: when a broadcast ends, every member of the room other than the sender
\* has been written exactly one copy, and the sender none.
C8_BroadcastReachesAll == [][\A c \in Conns : (pc[c] = "send_broadcast" /\ pc'[c] # "send_broadcast") => (Copies(WroteAtEnd(c), c) = 0 /\ \A d \in Owed(c) : Copies(WroteAtEnd(c), d) = 1)]_vars

\* C9: every relayed message a handler writes, to a target or in a
\* broadcast, carries the fromPeerId of the session whose handler writes it,
\* whatever fromPeerId the inbound message had.
C9_FromIsSender == \A c \in Conns : pc[c] \in {"send_target", "send_broadcast"} => (out[c].msg.src = c /\ out[c].msg.fromPeerId = peer_id[c] /\ out[c].msg.fromPeerId # Forged)

\* C9 witness: a relayed message, targeted or broadcast, is being written
\* to an open session other than its sender.
C9_Witness == \E c \in Conns : pc[c] \in {"send_target", "send_broadcast"} /\ out[c].to # c /\ conn[out[c].to] = "open" /\ out[c].msg.fromPeerId = peer_id[c]

\* The room the disconnect block of session c would act on.
CleanupRoom(c) == IF meeting_id[c] \in DOMAIN conference_rooms THEN meeting_id[c] ELSE NoVal

\* C10: a join without a meetingId is answered with an error and changes
\* neither the registry nor the room the session's disconnect block will
\* act on.
C10_RejectedJoinNoEffect == [][\A c \in Conns : (pc[c] = "receive" /\ pc'[c] = "send_error_join") => (conference_rooms' = conference_rooms /\ CleanupRoom(c)' = CleanupRoom(c) /\ out'[c].to = c /\ out'[c].msg.type = "error")]_vars

\* What handler c does with text d, up to its next await.
Step(c, d) == Process(c, Loc(c), conference_rooms, d)

Waiting(c) == pc[c] = "receive" /\ conn[c] = "open"

\* The offers, answers and ice-candidates without a meetingId, or naming a
\* room the registry does not hold.
Roomless == {d \in Inputs : d.type = "offer" /\ (Falsy(d.meetingId) \/ d.meetingId \in Meetings \ DOMAIN conference_rooms)}

\* C11: a handler that takes an offer/answer/ice-candidate without a
\* meetingId, or naming a room that is not in the registry, writes nothing,
\* leaves the registry as it is and waits for the next message.
C11_RoomlessRelayDropped == \A c \in Conns : Waiting(c) => \A d \in Roomless : (Step(c, d).rooms = conference_rooms /\ Step(c, d).L.pc = "receive" /\ Step(c, d).L.out = NoOut /\ Step(c, d).L.cleanup = "none")

\* C11 witness: a session has named a room that never existed (no
\* disconnect block has run, so no room was ever removed) and is waiting,
\* connected, for its next message.
C11_Witness == \E c \in Conns : Waiting(c) /\ meeting_id[c] \in Meetings /\ conference_rooms = << >> /\ \A d \in Conns : ~Ended(d) /\ cleanup[d] = "none"

\* The texts that are not JSON, or not a JSON object, or carry a meetingId
\* of an unusable type.
Malformed == {d \in Inputs : d.json # "object" \/ (d.type \in {"join", "offer"} /\ d.meetingId = Unhashable)}

\* C12: a handler that takes a malformed message writes one error reply, to
\* the sender, leaves the registry as it is and stays in its receive loop.
C12_MalformedAnswered == \A c \in Conns : Waiting(c) => \A d \in Malformed : (Step(c, d).rooms = conference_rooms /\ Step(c, d).L.pc = "send_error_invalid" /\ Step(c, d).L.out.to = c /\ Step(c, d).L.out.msg.type = "error")

\* C13: a write of a peer-joined or of a relayed message that fails (its
\* recipient is gone) ends neither the fan-out nor the sender's handler,
\* and does not send the sender into its disconnect block.
C13_FanoutSurvivesFailure == [][\A c \in Conns : (pc[c] \in {"send_peer_joined", "send_broadcast"} /\ conn[out[c].to] # "open" /\ conn[c] = "open" /\ pc'[c] # pc[c]) => (pc'[c] \in {"receive", "send_peer_joined", "send_broadcast"} /\ cleanup'[c] = "none")]_vars

\* Session c was a member, under its own id, of the room its disconnect
\* block works on.
WasMember(c) == \E i \in 1..Len(snap[c]) : snap[c][i].ws = c /\ snap[c][i].k = peer_id[c]

\* The sessions the disconnect block of c owes a peer-left: the others in
\* the room when c was removed, still in it and still connected when the
\* notification ends.
OwedLeft(c) == {d \in Conns \ {c} : /\ \E i \in 1..Len(snap[c]) : snap[c][i].ws = d
                                    /\ it[c].m \in DOMAIN conference_rooms
                                    /\ d \in Values(conference_rooms[it[c].m])
                                    /\ conn[d] = "open"}

\* C14: when the notification of a member's disconnect ends, every session
\* still in the room has been written one peer-left, whatever other
\* sessions did meanwhile.
C14_PeerLeftReachesAll == [][\A c \in Conns : (pc[c] = "send_peer_left" /\ pc'[c] # "send_peer_left" /\ WasMember(c)) => \A d \in OwedLeft(c) : Copies(WroteAtEnd(c), d) = 1]_vars

\* The recipient of the pending write of c is stored in room m under id k.
StoredAs(c, m, k) == m \in DOMAIN conference_rooms /\ HasKey(conference_rooms[m], k) /\ GetItem(conference_rooms[m], k) = out[c].to

\* C15: the peer-joined written, after a joined reply, to a session that
\* the reply's existingPeers lists carries the participantCount of that
\* reply.  (Stated for a session whose id no other session's entry
\* carries.)
C15_SameCount == [][\A c \in Conns : (pc[c] = "send_joined" /\ pc'[c] = "send_peer_joined" /\ NoForeignEntry(c) /\ \E k \in Range(out[c].msg.existingPeers) : StoredAs(c, meeting_id[c], k)') => out'[c].msg.participantCount = out[c].msg.participantCount]_vars

\* C16: a handler takes a message in only when every write of the message
\* before it has ended and no fan-out is under way; taking it in changes no
\* other handler.  The writes of one sender to one recipient are therefore
\* made in the order of the sender's messages.
C16_InOrder == [][received' # received => \E c \in Conns : (Waiting(c) /\ out[c] = NoOut /\ it[c] = NoIter /\ \A d \in Conns \ {c} : Loc(d)' = Loc(d))]_vars

\* C16 witness: a session that joined a room is writing a relay, its later
\* message, to another member of that room.
C16_Witness == \E c \in Conns : pc[c] \in {"send_target", "send_broadcast"} /\ c \in Values(snap[c]) /\ out[c].to # c /\ conn[out[c].to] = "open" /\ received >= 2

-----------------------------------------------------------------------------
(* Properties of the frame-analysis endpoints *)

\* The /ws messages that cannot be decoded: a body that is not JSON, or a
\* frame field that is no base64 image.
Undecodable(d) == d.json = "invalid" \/ (d.json = "object" /\ d.frame \in {"short", "number", "undecodable"})

\* C17: every /ws message that cannot be decoded (its body is not parseable
\* or its frame field is not a decodable payload) is answered to its sender
\* with the verdict is_fake = true, confidence 0.99, alert_msg "Bad payload";
\* it is never dropped and never answered as genuine, and the handler goes
\* on serving the connection.
C17_UndecodableFailsClosed == \A w \in WConns : Undecodable(fout[w].input) => (wpc[w] \in {"send_bad", "send_verdict"} /\ fout[w].msg.is_fake /\ fout[w].msg.confidence = 990 /\ fout[w].msg.alert_msg = "Bad payload")

\* The verdict a face frame gets from the history of the source it declares.
OwnVerdict(d, histories) == [is_fake |-> Smooth(histories[DeclaredSource(d)]).is_fake, confidence |-> Round3(Smooth(histories[DeclaredSource(d)]).confidence)]

\* C18: the verdict /ws gives a frame is computed from the history of the
\* source the frame message declares (the sentinel when it declares none):
\* it is the verdict the frames of that source alone produce, whatever
\* frames of other sources came in between.
C18_SourceKeyed == [][\A w \in WConns : (wpc[w] = "receive" /\ wpc'[w] = "send_verdict" /\ fout'[w].input.frame = "face") => (fout'[w].msg.is_fake = OwnVerdict(fout'[w].input, fed').is_fake /\ fout'[w].msg.confidence = OwnVerdict(fout'[w].input, fed').confidence)]_<<vars, fvars>>

\* The step in which /ws handler w takes a frame message up to the write of
\* its verdict.
Analyzed(w) == wpc[w] = "receive" /\ wpc'[w] = "send_verdict"

\* A step of POST /api/detect/face.
Posted == nframes' # nframes /\ wpc' = wpc

\* C19: a frame in which no face is found, or which is rejected before it is
\* scored, leaves every score history as it was and is answered with
\* face_detected = false, is_fake = false, confidence 0; a history changes
\* only in a step that answers a frame with face_detected = true.
C19_NoFaceNoEffect ==
    [][/\ \A w \in WConns : (Analyzed(w) /\ fout'[w].input.frame # "face") => (score_buffers' = score_buffers /\ ~fout'[w].msg.face_detected /\ ~fout'[w].msg.is_fake /\ fout'[w].msg.confidence = 0)
       /\ (Posted /\ ~response'.face_detected) => (score_buffers' = score_buffers /\ ~response'.is_fake /\ response'.confidence.num = 0)
       /\ score_buffers' # score_buffers => ((Posted /\ response'.face_detected) \/ \E w \in WConns : Analyzed(w) /\ fout'[w].input.frame = "face" /\ fout'[w].msg.face_detected)]_<<vars, fvars>>

\* C19 witness: /ws is answering a frame without a face while histories
\* of two sources hold scores.
C19_Witness == \E w \in WConns : wpc[w] = "send_verdict" /\ fout[w].input.frame = "noface" /\ ~fout[w].msg.face_detected /\ "default" \in DOMAIN score_buffers /\ Dashboard \in DOMAIN score_buffers

\* The result of the update that left history buf.
Updated(buf) == Smooth(buf)

\* C20: for every update of a history, is_fake holds exactly when the
\* weighted mean of the working set is at least 0.92, and the confidence is
\* min(0.99, mean) when fake and min(0.99, 1 - mean) when genuine: never
\* above 0.99, at least 0.92 when fake, above 0.08 when genuine.  The
\* response of POST /api/detect/face carries that confidence.
C20_VerdictAndConfidence ==
    /\ \A s \in DOMAIN score_buffers :
        LET r == Updated(score_buffers[s])
            scores == WorkingSet(score_buffers[s])
            num == WeightedSum(scores, Len(scores))
            den == TotalWeight(Len(scores))
        IN  /\ r.is_fake <=> num >= 920 * den
            /\ r.confidence.den = den
            /\ r.is_fake => r.confidence.num = MinNum(990 * den, num)
            /\ ~r.is_fake => r.confidence.num = MinNum(990 * den, 1000 * den - num)
            /\ r.confidence.num <= 990 * den
            /\ r.is_fake => r.confidence.num >= 920 * den
            /\ ~r.is_fake => r.confidence.num > 80 * den
    /\ response.face_detected =>
            /\ response.confidence.num <= 990 * response.confidence.den
            /\ response.is_fake => response.confidence.num >= 920 * response.confidence.den
            /\ ~response.is_fake => response.confidence.num > 80 * response.confidence.den

\* C20 witness: one history has a mean above 0.99 (a fake verdict, capped),
\* another a mean of exactly 0.92, a third a genuine verdict, and POST has
\* answered a frame with a face.
C20_Witness ==
    /\ response.face_detected
    /\ \E s \in DOMAIN score_buffers : Updated(score_buffers[s]).is_fake /\ Updated(score_buffers[s]).avg.num > 990 * Updated(score_buffers[s]).avg.den
    /\ \E s \in DOMAIN score_buffers : Updated(score_buffers[s]).avg.num = 920 * Updated(score_buffers[s]).avg.den
    /\ \E s \in DOMAIN score_buffers : ~Updated(score_buffers[s]).is_fake

-----------------------------------------------------------------------------
(* Sequences of steps of one signalling session *)

\* The handler's locals when the write it is suspended in has ended with
\* outcome o.
Wrote(L, o) == [L EXCEPT !.wrote = IF o = "ok" THEN Append(@, L.out.to) ELSE @]

\* What handler c, suspended in a write with locals L, does when the write
\* ends with outcome o, up to its next await.
Resume(c, L, rooms, o) ==
    CASE L.pc = "send_peer_left" -> PeerLeftLoop(c, Wrote(L, o), rooms)
      [] L.pc # "send_peer_left" /\ o \notin {"ok", "lost"} -> SendFailed(c, L, rooms, o)
      [] L.pc = "send_joined" /\ o \in {"ok", "lost"} -> PeerJoinedStart(c, Wrote(L, o), rooms)
      [] L.pc = "send_peer_joined" /\ o \in {"ok", "lost"} -> PeerJoinedLoop(c, Wrote(L, o), rooms)
      [] L.pc = "send_broadcast" /\ o \in {"ok", "lost"} -> BroadcastLoop(c, Wrote(L, o), rooms)
      [] OTHER -> BackToReceive(Wrote(L, o), rooms)

\* The outcomes of a write to connection d by handler c, whose own
\* connection is in state own, while no other session does anything.
OutcomesAlone(c, d, own) == IF (IF d = c THEN own ELSE conn[d]) = "open" THEN {"ok"} ELSE {"lost", "disconnect", "error"}

RECURSIVE Alone(_, _, _)
\* Where handler c can be when it next waits for a message or has ended,
\* from r on, while no other handler takes a step.
Alone(c, r, own) == IF r.L.pc \in {"receive", "returned", "raised"} THEN {r} ELSE UNION {Alone(c, Resume(c, r.L, r.rooms, o), own) : o \in OutcomesAlone(c, r.L.out.to, own)}

\* Session c sends a join of room m and, when the handler is back at
\* receive_text, goes away; no other handler takes a step.  The results the
\* handler can end with.
JoinThenLeave(c, m) == UNION {IF r.L.pc = "receive" THEN Alone(c, CleanupEnter(c, r.L, r.rooms), "closed") ELSE {r} : r \in Alone(c, Process(c, Loc(c), conference_rooms, Object("join", m, NoVal, NoVal)), "open")}

\* The registry as the rooms and the members of each.
Members(rooms) == [m \in DOMAIN rooms |-> {<<rooms[m][i].k, rooms[m][i].ws>> : i \in Live(rooms[m])}]

\* A session that waits for a message and is stored in no room, nor is its
\* id.
Newcomer(c) == Waiting(c) /\ RoomsOf(c) = {} /\ \A m \in DOMAIN conference_rooms : ~HasKey(conference_rooms[m], peer_id[c])

\* C21: when a session that is in no room joins a room and then disconnects
\* while no other session's handler takes a step, the registry has the rooms
\* and the members it had before the join.
C21_JoinLeaveRoundTrip == \A c \in Conns : Newcomer(c) => \A m \in Meetings : \A r \in JoinThenLeave(c, m) : Members(r.rooms) = Members(conference_rooms)

\* Every step a handler takes out of a write is a step of Resume.
ResumeIsTheStep == [][\A c \in Conns : (pc[c] \notin {"idle", "receive", "returned", "raised"} /\ Loc(c)' # Loc(c) /\ \A d \in Conns \ {c} : [Loc(d) EXCEPT !.it = NoIter]' = [Loc(d) EXCEPT !.it = NoIter]) => \E o \in Outcomes(out[c].to) : Loc(c)' = Resume(c, Loc(c), conference_rooms, o).L /\ conference_rooms' = Compact(Resume(c, Loc(c), conference_rooms, o).rooms, it')]_vars

\* Handler c has begun the sequence of a join or of a disconnect and has not
\* finished it: it is suspended in one of the sequence's writes.
MidSequence(c) == pc[c] \in {"send_joined", "send_peer_joined", "send_peer_left"}

\* This step is one of handler d: a step of its join, relay or disconnect
\* handling that acts on room m.
StepsOnRoom(d, m) ==
    /\ pc'[d] # pc[d] \/ out'[d] # out[d] \/ wrote'[d] # wrote[d]
    /\ meeting_id[d] = m \/ meeting_id'[d] = m
    /\ \/ pc[d] \in {"send_joined", "send_peer_joined", "send_target", "send_broadcast", "send_peer_left"}
       \/ pc'[d] \in {"send_joined", "send_peer_joined", "send_target", "send_broadcast", "send_peer_left"}
       \/ cleanup'[d] = "done" /\ meeting_id[d] \in DOMAIN conference_rooms

\* C22: the sequence of a join (snapshot, insert, joined reply, peer-joined
\* notifications) and that of a disconnect (remove, peer-left notifications,
\* deletion of the empty room) are atomic for their room: while a handler is
\* between the first and the last step of such a sequence, no other
\* handler takes a step of a join, a relay or a disconnect on that room.
\* (Stated for handlers with different peer ids.)
C22_SequencesAtomic == [][\A c \in Conns : (MidSequence(c) /\ MidSequence(c)') => \A d \in Conns \ {c} : peer_id[d] # peer_id[c] => ~StepsOnRoom(d, meeting_id[c])]_vars

\* The handler of c is running on an open connection.
OpenSession(c) == conn[c] = "open" /\ pc[c] \notin {"idle", "returned", "raised"}

\* C25: no two sessions that are open at the same time hold the same peer
\* id, and no room stores a session's websocket under the id of another
\* open session.
C25_UniquePeerIds == \A c \in Conns : OpenSession(c) => (NoForeignEntry(c) /\ \A d \in Conns \ {c} : OpenSession(d) => peer_id[d] # peer_id[c])

\* The room a relay of c is delivered to holds c's entry.
SenderIsMember(c) == \E i \in Live(snap[c]) : snap[c][i].ws = c /\ snap[c][i].k = peer_id[c]

\* C26: an offer, answer or ice-candidate is written to members of a room
\* only when its sender is a member of that room.
C26_RelayFromMemberOnly == \A c \in Conns : (pc[c] \in {"send_target", "send_broadcast"} /\ out[c].to # c /\ \A d \in Conns \ {c} : peer_id[d] # peer_id[c]) => SenderIsMember(c)

\* C27: a peer-left carrying the id of session c is written to the members
\* of a room only when c was a member of that room and this disconnect
\* removed it; meeting ids named by c's earlier relays change neither the
\* room nor the recipients.
C27_PeerLeftFromMemberOnly == \A c \in Conns : (pc[c] = "send_peer_left" /\ \A d \in Conns \ {c} : peer_id[d] # out[c].msg.peerId) => (WasMember(c) /\ \A i \in 1..Len(snap[c]) : (snap[c][i].ws = c /\ it[c].m \in DOMAIN conference_rooms) => ~HasKey(conference_rooms[it[c].m], snap[c][i].k))

\* The entries of history buf that are at most OUTLIER_THRESHOLD away from
\* its median.
WithinThreshold(buf) == SelectSeq(buf, LAMBDA x : Abs(x - Median(buf)) <= OUTLIER_THRESHOLD)

\* C23: the working set of a history of at least 5 entries holds exactly
\* the entries whose distance from the median is at most 0.12 (one at
\* exactly 0.12 is kept, one further away is discarded); of a shorter
\* history nothing is discarded.
C23_OutliersBeyondThreshold == \A s \in DOMAIN score_buffers : WorkingSet(score_buffers[s]) = IF Len(score_buffers[s]) >= 5 THEN WithinThreshold(score_buffers[s]) ELSE score_buffers[s]

\* The history of source s, empty when there is none.
History(buffers, s) == IF s \in DOMAIN buffers THEN buffers[s] ELSE << >>

\* History new is history old with one score appended, after the removal of
\* the oldest score when old was full.
OneAppended(old, new) ==
    /\ Len(new) >= 1
    /\ Len(old) < 25 => (Len(new) = Len(old) + 1 /\ \A i \in 1..Len(old) : new[i] = old[i])
    /\ Len(old) >= 25 => (Len(new) = 25 /\ \A i \in 1..24 : new[i] = old[i + 1])

\* C24: every history holds at most 25 scores, and an update appends the
\* new score at the end and removes nothing but, from a full history, the
\* oldest score: a history is the most recent scores of its source in the
\* order they came.
C24_MostRecentInOrder ==
    [][/\ DOMAIN score_buffers \subseteq DOMAIN score_buffers'
       /\ \A s \in DOMAIN score_buffers' :
            /\ Len(score_buffers'[s]) <= 25
            /\ score_buffers'[s] = History(score_buffers, s) \/ OneAppended(History(score_buffers, s), score_buffers'[s])
       /\ \A w \in WConns : (Analyzed(w) /\ fout'[w].msg.face_detected /\ Dashboard \in DOMAIN score_buffers') => score_buffers'[Dashboard][Len(score_buffers'[Dashboard])] = fout'[w].input.score]_<<vars, fvars>>

\* C24 witness: the history of a source is full and its oldest score has
\* been removed by an update.
C24_Witness == Dashboard \in DOMAIN score_buffers /\ Len(score_buffers[Dashboard]) = BUFFER_SIZE /\ score_buffers[Dashboard][BUFFER_SIZE - 1] # 0 /\ score_buffers[Dashboard][1] = 0

====
